---- MODULE Spec2Model ----
(***************************************************************************)
(* Model of bionic's malloc debug option parser,                           *)
(* libc/malloc_debug/Config.cpp: PropertyParser::Get, SetFeature and       *)
(* Config::SetFromProperties.                                              *)
(*                                                                         *)
(* A string is a sequence of one-character strings; position Len(s) + 1    *)
(* is the terminating NUL.  size_t and long are modelled with a scaled     *)
(* word of WordBits bits: long has one bit less magnitude than size_t, as  *)
(* on every build (LONG_MAX < SIZE_MAX = 2 * LONG_MAX + 1).                *)
(***************************************************************************)
EXTENDS Integers, Sequences, FiniteSets, TLC

\* Width of size_t and long in the model.
WordBits == 30

\* Number of tokens that may stand before the last token of an input.
MaxPrefix == 1

LONG_MAX == 2^(WordBits - 1) - 1

SIZE_MAX == 2 * LONG_MAX + 1

\* sizeof(property_str): the property value holds at most PROP_VALUE_MAX - 1
\* characters.
PROP_VALUE_MAX == 92

MINIMUM_ALIGNMENT_BYTES == 16

DEFAULT_FILL_ALLOC_VALUE == 235

DEFAULT_FILL_FREE_VALUE == 239

DEFAULT_FRONT_GUARD_VALUE == 170

DEFAULT_REAR_GUARD_VALUE == 187

\* SIGRTMIN + 10, kept symbolic (the value of SIGRTMIN is the platform's).
BACKTRACE_SIGNAL == "SIGRTMIN+10"

-----------------------------------------------------------------------------
(* Characters *)

NUL == ""

\* The element of a one-element set.  The({e : x \in {d}}) is e with x
\* standing for the value of d: a local that is assigned once and then read.
The(S) == CHOOSE x \in S : TRUE

CharAt(s, k) == IF k >= 1 /\ k <= Len(s) THEN s[k] ELSE NUL

\* isspace() in the C locale (the vertical tab has no TLA+ escape and is
\* not part of any modelled input).
isspace(c) == c \in {" ", "\t", "\n", "\r", "\f"}

DigitChars == << "0", "1", "2", "3", "4", "5", "6", "7", "8", "9" >>

isdigit(c) == \E d \in 1..10 : DigitChars[d] = c

DigitVal(c) == (CHOOSE d \in 1..10 : DigitChars[d] = c) - 1

\* SkipSpace skipping one character at most.
SkipSpace_One(s, p) == IF isspace(CharAt(s, p)) THEN p + 1 ELSE p

\* SkipSpace skipping nothing.
SkipSpace_None(s, p) == p

RECURSIVE SkipSpace(_, _)
\* while (isspace(*p)) ++p;
SkipSpace(s, p) ==
  IF isspace(CharAt(s, p)) THEN The({SkipSpace(s, q) : q \in {p + 1}}) ELSE p

RECURSIVE SkipDigits(_, _)
SkipDigits(s, p) ==
  IF isdigit(CharAt(s, p)) THEN The({SkipDigits(s, q) : q \in {p + 1}}) ELSE p

\* SkipName taking no character for the name.
SkipName_None(s, p) == p

RECURSIVE SkipName(_, _)
\* while (!isspace(*cur_) && *cur_ != '=' && *cur_ != '\0') ++cur_;
SkipName(s, p) ==
  IF ~isspace(CharAt(s, p)) /\ CharAt(s, p) # "=" /\ CharAt(s, p) # NUL
  THEN The({SkipName(s, q) : q \in {p + 1}})
  ELSE p

RECURSIVE AccDigits(_, _, _, _, _)
\* The digit loop of strtol: the magnitude accumulated over s[p..e-1], and
\* whether it passed limit (LONG_MAX, or LONG_MAX + 1 for a negative number).
AccDigits(s, p, e, acc, limit) ==
  IF p >= e
  THEN [acc |-> acc, over |-> FALSE]
  ELSE LET d == DigitVal(s[p])
       IN IF acc > (limit - d) \div 10
          THEN [acc |-> limit, over |-> TRUE]
          ELSE The({AccDigits(s, q, e, a, limit) :
                      q \in {p + 1}, a \in {acc * 10 + d}})

\* strtol(s + p, &end, 10): leading white space is skipped, one sign is
\* accepted, then the longest run of digits is converted.  Without a digit
\* no conversion is performed and end is the start p.  On overflow the
\* result saturates, errno is ERANGE and end is still past the digits.
strtol(s, p) ==
  The({
    LET neg == CharAt(s, q) = "-"
    IN The({ The({
         IF e = b
         THEN [value |-> 0, end |-> p, erange |-> FALSE]
         ELSE The({[value  |-> IF neg THEN 0 - r.acc ELSE r.acc,
                    end    |-> e,
                    erange |-> r.over] :
                   r \in {AccDigits(s, b, e, 0,
                                    IF neg THEN LONG_MAX + 1 ELSE LONG_MAX)}})
         : e \in {SkipDigits(s, b)} })
       : b \in {IF CharAt(s, q) \in {"+", "-"} THEN q + 1 ELSE q} })
    : q \in {SkipSpace(s, p)} })

-----------------------------------------------------------------------------
(* PropertyParser::Get *)

\* BadNumber without the test of the character after the digits.
BadNumber_NoTrailingCheck(c, end, endchar) == c = end

\* cur_ == end || (!isspace(*end) && *end != '\0')
BadNumber(c, end, endchar) == c = end \/ (~isspace(endchar) /\ endchar # NUL)

\* IsNegative as "read_value <= 0".
IsNegative_OrZero(read_value) == read_value <= 0

\* read_value < 0
IsNegative(read_value) == read_value < 0

\* One call of Get on the string s with the cursor at cur0.  ret is the
\* return value; property is always written once a name was found; value is
\* written only when wrote_value; value_set only when wrote_value_set; err
\* is the error logged ("" when none).  name_start and num_start are the
\* locals property_start and the argument of strtol (0 when not reached).
PropertyParserGet(s, cur0) ==
  The({
    IF CharAt(s, c1) = NUL
    THEN [ret |-> FALSE, done |-> TRUE, cur |-> c1,
          wrote_property |-> FALSE, property |-> << >>,
          wrote_value_set |-> FALSE, value_set |-> FALSE,
          wrote_value |-> FALSE, value |-> 0, err |-> "",
          name_start |-> 0, num_start |-> 0]
    ELSE The({ The({
       LET name == SubSeq(s, c1, c2 - 1)
       IN IF CharAt(s, c3) = "="
          THEN
            LET c4 == c3 + 1
                bad == [ret |-> FALSE, done |-> FALSE, cur |-> c4,
                        wrote_property |-> TRUE, property |-> name,
                        wrote_value_set |-> TRUE, value_set |-> TRUE,
                        wrote_value |-> FALSE, value |-> 0, err |-> "",
                        name_start |-> c1, num_start |-> c4]
            IN The({
               IF n.erange
               THEN [bad EXCEPT !.err = "bad value: errno"]
               ELSE IF BadNumber(c4, n.end, CharAt(s, n.end))
               THEN IF c4 = n.end
                    THEN [bad EXCEPT !.err = "bad value"]
                    ELSE [bad EXCEPT !.err = "bad value: non space found after option"]
               ELSE IF IsNegative(n.value)
               THEN [bad EXCEPT !.err = "bad value: value cannot be negative"]
               ELSE [ret |-> TRUE, done |-> FALSE, cur |-> n.end,
                     wrote_property |-> TRUE, property |-> name,
                     wrote_value_set |-> TRUE, value_set |-> TRUE,
                     wrote_value |-> TRUE, value |-> n.value, err |-> "",
                     name_start |-> c1, num_start |-> c4]
               : n \in {strtol(s, c4)} })
          ELSE [ret |-> TRUE, done |-> FALSE, cur |-> c3,
                wrote_property |-> TRUE, property |-> name,
                wrote_value_set |-> TRUE, value_set |-> FALSE,
                wrote_value |-> FALSE, value |-> 0, err |-> "",
                name_start |-> c1, num_start |-> 0]
       : c3 \in {SkipSpace(s, c2)} }) : c2 \in {SkipName(s, c1)} })
    : c1 \in {SkipSpace(s, cur0)} })

-----------------------------------------------------------------------------
(* The option names *)


N_guard ==
  << "g", "u", "a", "r", "d" >>

N_front_guard ==
  << "f", "r", "o", "n", "t", "_", "g", "u", "a", "r", "d" >>

N_rear_guard ==
  << "r", "e", "a", "r", "_", "g", "u", "a", "r", "d" >>

N_backtrace ==
  << "b", "a", "c", "k", "t", "r", "a", "c", "e" >>

N_backtrace_enable_on_signal ==
  << "b", "a", "c", "k", "t", "r", "a", "c", "e", "_", "e", "n", "a", "b",
     "l", "e", "_", "o", "n", "_", "s", "i", "g", "n", "a", "l" >>

N_fill ==
  << "f", "i", "l", "l" >>

N_fill_on_alloc ==
  << "f", "i", "l", "l", "_", "o", "n", "_", "a", "l", "l", "o", "c" >>

N_fill_on_free ==
  << "f", "i", "l", "l", "_", "o", "n", "_", "f", "r", "e", "e" >>

N_expand_alloc ==
  << "e", "x", "p", "a", "n", "d", "_", "a", "l", "l", "o", "c" >>

N_free_track ==
  << "f", "r", "e", "e", "_", "t", "r", "a", "c", "k" >>

N_free_track_backtrace_num_frames ==
  << "f", "r", "e", "e", "_", "t", "r", "a", "c", "k", "_", "b", "a", "c",
     "k", "t", "r", "a", "c", "e", "_", "n", "u", "m", "_", "f", "r", "a",
     "m", "e", "s" >>

N_leak_track ==
  << "l", "e", "a", "k", "_", "t", "r", "a", "c", "k" >>

N_unknown_option ==
  << "u", "n", "k", "n", "o", "w", "n", "_", "o", "p", "t", "i", "o", "n" >>

-----------------------------------------------------------------------------
(* Config and the feature table *)

\* The option bits of Config.h; the bitmask is modelled as the set of the
\* bits that are on, so that |= is set union and 0 is the empty set.
OptionBits ==
  {"FRONT_GUARD", "REAR_GUARD", "BACKTRACE", "FILL_ON_ALLOC", "FILL_ON_FREE",
   "EXPAND_ALLOC", "FREE_TRACK", "TRACK_ALLOCS", "LEAK_TRACK"}

\* A Config object as constructed: no option, every field zero / false.
FreshConfig ==
  [options                         |-> {},
   front_guard_bytes               |-> 0,
   rear_guard_bytes                |-> 0,
   backtrace_enable_on_signal      |-> FALSE,
   backtrace_signal                |-> "0",
   backtrace_enabled               |-> FALSE,
   backtrace_frames                |-> 0,
   fill_on_alloc_bytes             |-> 0,
   fill_on_free_bytes              |-> 0,
   expand_alloc_bytes              |-> 0,
   free_track_allocations          |-> 0,
   free_track_backtrace_num_frames |-> 0,
   fill_alloc_value                |-> 0,
   fill_free_value                 |-> 0,
   front_guard_value               |-> 0,
   rear_guard_value                |-> 0]

\* struct Feature; value and config name the Config field the pointer
\* addresses, "nullptr" when it is null.
Feature(name, default_value, min_value, max_value, option, value, config, combo_option) ==
  [name          |-> name,
   default_value |-> default_value,
   min_value     |-> min_value,
   max_value     |-> max_value,
   option        |-> option,
   value         |-> value,
   config        |-> config,
   combo_option  |-> combo_option]

features ==
  << Feature(N_guard, 32, 1, 16384, {}, "nullptr", "nullptr", TRUE),
     Feature(N_front_guard, 32, 1, 16384, {"FRONT_GUARD"},
             "front_guard_bytes", "nullptr", TRUE),
     Feature(N_rear_guard, 32, 1, 16384, {"REAR_GUARD"},
             "rear_guard_bytes", "nullptr", TRUE),
     Feature(N_backtrace, 16, 1, 256, {"BACKTRACE", "TRACK_ALLOCS"},
             "backtrace_frames", "backtrace_enabled", FALSE),
     Feature(N_backtrace_enable_on_signal, 16, 1, 256,
             {"BACKTRACE", "TRACK_ALLOCS"},
             "backtrace_frames", "backtrace_enable_on_signal", FALSE),
     Feature(N_fill, SIZE_MAX, 1, SIZE_MAX, {}, "nullptr", "nullptr", TRUE),
     Feature(N_fill_on_alloc, SIZE_MAX, 1, SIZE_MAX, {"FILL_ON_ALLOC"},
             "fill_on_alloc_bytes", "nullptr", TRUE),
     Feature(N_fill_on_free, SIZE_MAX, 1, SIZE_MAX, {"FILL_ON_FREE"},
             "fill_on_free_bytes", "nullptr", TRUE),
     Feature(N_expand_alloc, 16, 1, 16384, {"EXPAND_ALLOC"},
             "expand_alloc_bytes", "nullptr", FALSE),
     Feature(N_free_track, 100, 1, 16384, {"FREE_TRACK", "FILL_ON_FREE"},
             "free_track_allocations", "nullptr", FALSE),
     Feature(N_free_track_backtrace_num_frames, 16, 0, 256, {},
             "free_track_backtrace_num_frames", "nullptr", FALSE),
     Feature(N_leak_track, 0, 0, 0, {"LEAK_TRACK", "TRACK_ALLOCS"},
             "nullptr", "nullptr", FALSE) >>

\* sizeof(features)/sizeof(Feature)
NumFeatures == Len(features)

\* BelowMin finding no value too small.
BelowMin_Never(v, feature) == FALSE

\* value < feature.min_value
BelowMin(v, feature) == v < feature.min_value

\* AboveMax as "value >= feature.max_value".
AboveMax_OffByOne(v, feature) == v >= feature.max_value

\* value > feature.max_value
AboveMax(v, feature) == v > feature.max_value

\* SetFeature storing the local value where the default is due.
SetFeature_StaleValue(c, feature, v, vs) ==
  LET c1 == IF feature.config # "nullptr"
            THEN [c EXCEPT ![feature.config] = TRUE]
            ELSE c
  IN IF feature.value # "nullptr"
     THEN IF vs /\ (BelowMin(v, feature) \/ AboveMax(v, feature))
          THEN [ok |-> FALSE, cfg |-> c1, err |-> "bad value: out of range"]
          ELSE [ok |-> TRUE, cfg |-> [c1 EXCEPT ![feature.value] = v],
                err |-> ""]
     ELSE IF vs
     THEN [ok |-> FALSE, cfg |-> c1, err |-> "value set for option which does not take a value"]
     ELSE [ok |-> TRUE, cfg |-> c1, err |-> ""]

\* SetFeature checking the bounds of an option without a numeric field
\* instead of rejecting its value.
SetFeature_BoundsOnly(c, feature, v, vs) ==
  LET c1 == IF feature.config # "nullptr"
            THEN [c EXCEPT ![feature.config] = TRUE]
            ELSE c
  IN IF vs /\ (BelowMin(v, feature) \/ AboveMax(v, feature))
     THEN [ok |-> FALSE, cfg |-> c1, err |-> "bad value: out of range"]
     ELSE IF feature.value # "nullptr"
     THEN [ok |-> TRUE,
           cfg |-> [c1 EXCEPT ![feature.value] =
                                IF vs THEN v ELSE feature.default_value],
           err |-> ""]
     ELSE [ok |-> TRUE, cfg |-> c1, err |-> ""]

\* SetFeature setting the boolean only once the value was accepted.
SetFeature_ConfigAfterCheck(c, feature, v, vs) ==
  LET c1 == IF feature.config # "nullptr"
            THEN [c EXCEPT ![feature.config] = TRUE]
            ELSE c
  IN IF feature.value # "nullptr"
     THEN IF vs
          THEN IF BelowMin(v, feature)
               THEN [ok |-> FALSE, cfg |-> c, err |-> "bad value: value must be >="]
               ELSE IF AboveMax(v, feature)
               THEN [ok |-> FALSE, cfg |-> c, err |-> "bad value: value must be <="]
               ELSE [ok |-> TRUE, cfg |-> [c1 EXCEPT ![feature.value] = v],
                     err |-> ""]
          ELSE [ok |-> TRUE,
                cfg |-> [c1 EXCEPT ![feature.value] = feature.default_value],
                err |-> ""]
     ELSE IF vs
     THEN [ok |-> FALSE, cfg |-> c, err |-> "value set for option which does not take a value"]
     ELSE [ok |-> TRUE, cfg |-> c1, err |-> ""]

\* SetFeature leaving the numeric field of a feature that was given before
\* as it is.
SetFeature_FirstWins(c, feature, v, vs) ==
  LET c1 == IF feature.config # "nullptr"
            THEN [c EXCEPT ![feature.config] = TRUE]
            ELSE c
  IN IF feature.value # "nullptr"
     THEN IF vs /\ BelowMin(v, feature)
          THEN [ok |-> FALSE, cfg |-> c1, err |-> "bad value: value must be >="]
          ELSE IF vs /\ AboveMax(v, feature)
          THEN [ok |-> FALSE, cfg |-> c1, err |-> "bad value: value must be <="]
          ELSE IF feature.option \subseteq c.options /\ feature.option # {}
          THEN [ok |-> TRUE, cfg |-> c1, err |-> ""]
          ELSE [ok |-> TRUE,
                cfg |-> [c1 EXCEPT ![feature.value] =
                                     IF vs THEN v ELSE feature.default_value],
                err |-> ""]
     ELSE IF vs
     THEN [ok |-> FALSE, cfg |-> c1, err |-> "value set for option which does not take a value"]
     ELSE [ok |-> TRUE, cfg |-> c1, err |-> ""]

\* SetFeature(name, feature, value, value_set) on the Config c: the return
\* value, the Config as the call leaves it, and the error logged.
SetFeature(c, feature, v, vs) ==
  LET c1 == IF feature.config # "nullptr"
            THEN [c EXCEPT ![feature.config] = TRUE]
            ELSE c
  IN IF feature.value # "nullptr"
     THEN IF vs
          THEN IF BelowMin(v, feature)
               THEN [ok |-> FALSE, cfg |-> c1, err |-> "bad value: value must be >="]
               ELSE IF AboveMax(v, feature)
               THEN [ok |-> FALSE, cfg |-> c1, err |-> "bad value: value must be <="]
               ELSE [ok |-> TRUE, cfg |-> [c1 EXCEPT ![feature.value] = v],
                     err |-> ""]
          ELSE [ok |-> TRUE,
                cfg |-> [c1 EXCEPT ![feature.value] = feature.default_value],
                err |-> ""]
     ELSE IF vs
     THEN [ok |-> FALSE, cfg |-> c1, err |-> "value set for option which does not take a value"]
     ELSE [ok |-> TRUE, cfg |-> c1, err |-> ""]

\* BIONIC_ALIGN(value, alignment) for a power-of-two alignment:
\* (value + alignment - 1) & ~(alignment - 1).
BIONIC_ALIGN(v, alignment) == ((v + alignment - 1) \div alignment) * alignment

\* InitDefaults starting every call from a Config as constructed.
InitDefaults_ResetAll(c) ==
  [FreshConfig EXCEPT !.fill_alloc_value  = DEFAULT_FILL_ALLOC_VALUE,
                      !.fill_free_value   = DEFAULT_FILL_FREE_VALUE,
                      !.front_guard_value = DEFAULT_FRONT_GUARD_VALUE,
                      !.rear_guard_value  = DEFAULT_REAR_GUARD_VALUE,
                      !.backtrace_signal  = BACKTRACE_SIGNAL,
                      !.free_track_backtrace_num_frames = 16]

\* The start of SetFromProperties once the property was read: "Initialize a
\* few default values".
InitDefaults(c) ==
  [c EXCEPT !.fill_alloc_value  = DEFAULT_FILL_ALLOC_VALUE,
            !.fill_free_value   = DEFAULT_FILL_FREE_VALUE,
            !.front_guard_value = DEFAULT_FRONT_GUARD_VALUE,
            !.rear_guard_value  = DEFAULT_REAR_GUARD_VALUE,
            !.backtrace_signal  = BACKTRACE_SIGNAL,
            !.free_track_backtrace_num_frames = 16]

\* AlignFrontGuard without the rounding.
AlignFrontGuard_NoRounding(c) == c

\* if (options & FRONT_GUARD) front_guard_bytes = BIONIC_ALIGN(...)
AlignFrontGuard(c) ==
  IF "FRONT_GUARD" \in c.options
  THEN [c EXCEPT !.front_guard_bytes =
                   BIONIC_ALIGN(c.front_guard_bytes, MINIMUM_ALIGNMENT_BYTES)]
  ELSE c

\* DefaultFillOnFree without the test fill_on_free_bytes == 0.
DefaultFillOnFree_Always(c) ==
  IF "FILL_ON_FREE" \in c.options
  THEN [c EXCEPT !.fill_on_free_bytes = SIZE_MAX]
  ELSE c

\* if ((options & FILL_ON_FREE) && fill_on_free_bytes == 0) ... = SIZE_MAX
DefaultFillOnFree(c) ==
  IF "FILL_ON_FREE" \in c.options /\ c.fill_on_free_bytes = 0
  THEN [c EXCEPT !.fill_on_free_bytes = SIZE_MAX]
  ELSE c

\* AfterParse normalizing whatever the verdict.
AfterParse_Always(c, v) == DefaultFillOnFree(AlignFrontGuard(c))

\* if (valid) { the two normalizations } else { the usage }: what becomes
\* of the Config.
AfterParse(c, v) == IF v THEN DefaultFillOnFree(AlignFrontGuard(c)) ELSE c

\* The index of the first table entry named name, 0 when there is none:
\* the for loop's test property == features[i].name.
FindFeature(name) ==
  IF \E k \in 1..NumFeatures : features[k].name = name
  THEN CHOOSE k \in 1..NumFeatures :
         /\ features[k].name = name
         /\ \A j \in 1..(k - 1) : features[j].name # name
  ELSE 0

\* IsComboMarker taking every entry with combo_option for a marker.
IsComboMarker_AnyCombo(f) == f.combo_option

\* features[i].option == 0 && features[i].combo_option
IsComboMarker(f) == f.option = {} /\ f.combo_option

\* The entries of the combo run that follows entry k: those after it up to
\* the first without combo_option.
ComboRun(k) ==
  {j \in (k + 1)..NumFeatures :
     \A m \in (k + 1)..j : features[m].combo_option}

-----------------------------------------------------------------------------
(* The inputs *)

RECURSIVE Dec(_)
\* The decimal digits of n >= 0.
Dec(n) ==
  IF n < 10
  THEN << DigitChars[n + 1] >>
  ELSE Append(Dec(n \div 10), DigitChars[(n % 10) + 1])

\* The numbers written as values: around every bound of the table, of long
\* and of size_t.
Values ==
  {0, 1, 10, 17, 64, 256, 257, 16383, 16384, 16385, LONG_MAX, LONG_MAX + 1,
   SIZE_MAX}

\* The numbers written after a sign.
SignedValues == {0, 5, 256}

FeatureNames == {features[k].name : k \in 1..NumFeatures}

\* The names written in a token: those of the table, one that is not in
\* it, and none at all (the token then begins with "=").
AllNames == FeatureNames \cup {N_unknown_option, << >>}

\* What may follow a name in a token.
ValueForms ==
  {<< >>, << " ", "\t" >>}
    \cup {<< "=" >> \o Dec(n) : n \in Values}
    \cup {<< "=", "+" >> \o Dec(n) : n \in SignedValues}
    \cup {<< "=", "-" >> \o Dec(n) : n \in SignedValues}
    \cup {<< "=" >>, << "=", "x" >>, << "=", "5", "x" >>, << "=", "-" >>,
          << " ", "=", "1", "0" >>, << " ", "\t", "=", "6", "4" >>,
          << "=", " ", "5" >>, << "=", " " >>,
          << "=" >> \o Dec(SIZE_MAX) \o << "x" >>}

LastTokens == {n \o f : n \in AllNames, f \in ValueForms}

\* The tokens that may stand before the last one.
PrefixTokens ==
  {N_backtrace \o << "=", "1", "0" >>,
   N_backtrace \o << "=", "0" >>,
   N_guard \o << "=", "1", "0" >>,
   N_free_track,
   N_fill_on_free \o << "=", "8" >>,
   << "\t" >> \o N_rear_guard \o << "=", "x" >>,
   N_unknown_option}

PrefixSeqs == UNION {[1..k -> PrefixTokens] : k \in 0..MaxPrefix}

RECURSIVE JoinPrefix(_)
\* The tokens of p, each followed by one space.
JoinPrefix(p) ==
  IF Len(p) = 0 THEN << >> ELSE Head(p) \o << " " >> \o JoinPrefix(Tail(p))

WhitespaceOnly == {<< " " >>, << " ", "\t", " " >>}

\* The values of the property libc.debug.malloc.options that are modelled.
\* The empty value stands for the unset property as well:
\* __system_property_get returns 0 for both.
PropertyValues ==
  {s \in {JoinPrefix(p) \o t : p \in PrefixSeqs, t \in LastTokens}
           \cup WhitespaceOnly \cup {<< >>} :
     Len(s) < PROP_VALUE_MAX}

\* The tokens of the strings given when one Config is built twice.
ReuseTokens ==
  {N_guard \o << "=", "1", "0" >>,
   N_rear_guard \o << "=", "6", "4" >>,
   N_backtrace \o << "=", "1", "0" >>,
   N_backtrace \o << "=", "0" >>,
   N_backtrace_enable_on_signal,
   N_fill_on_free \o << "=", "8" >>,
   N_free_track,
   N_free_track_backtrace_num_frames \o << "=", "0" >>,
   N_leak_track,
   N_expand_alloc \o << "=", "x" >>}

\* The property at the first of two builds of one Config: absent, or up to
\* MaxPrefix + 1 tokens.
ReuseFirstValues ==
  {s \in {JoinPrefix(p) \o t : p \in UNION {[1..k -> ReuseTokens] : k \in 0..MaxPrefix},
                                t \in ReuseTokens}
           \cup {<< >>} :
     Len(s) < PROP_VALUE_MAX}

\* The property at the second build: absent, one token, or one of two
\* strings of two tokens.
ReuseSecondValues ==
  ReuseTokens
    \cup {<< >>,
          N_free_track \o << " " >> \o N_rear_guard,
          N_leak_track \o << " " >> \o N_fill \o << "=", "0" >>}

\* The names of the combo markers, of the entries of their runs, and of the
\* entry with bit-flag 0 that is no marker.
ComboNames ==
  {features[k].name : k \in {j \in 1..NumFeatures :
                               features[j].combo_option \/ features[j].option = {}}}

\* One token of one of these names, with every form of value.
ComboValues == {n \o f : n \in ComboNames, f \in ValueForms}

\* The token of marker k written out: the names of its run, in the order of
\* the table, each with the text f after it, separated by one space.
ExpandText(k, f) ==
  LET x == JoinPrefix([j \in 1..Cardinality(ComboRun(k)) |->
                         features[k + j].name \o f])
  IN SubSeq(x, 1, Len(x) - 1)

\* The written-out forms of the string s, when s is one marker token.
Expansions(s) ==
  UNION {{ExpandText(k, f) : f \in {g \in ValueForms : s = features[k].name \o g}} :
           k \in {j \in 1..NumFeatures : IsComboMarker(features[j])}}

\* The content an uninitialized size_t local may have.
UninitValues == {0, 4660}

-----------------------------------------------------------------------------
(* State *)

VARIABLES
  property_value,  \* the system property libc.debug.malloc.options
  cfg,             \* the Config object
  pc,              \* where SetFromProperties stands
  cur,             \* PropertyParser::cur_, an index into property_value
  done,            \* PropertyParser::done_
  property,        \* local std::string property
  value,           \* local size_t value
  value_set,       \* local bool value_set
  found,           \* local bool found
  valid,           \* local bool valid
  i,               \* the index of the for loops (1-based)
  result,          \* the value SetFromProperties returned
  log,             \* what error_log was called with, in order
  get,             \* the last call of PropertyParser::Get
  tokens,          \* the tokens Get has returned to this call, in order
  first            \* the outcome of the first call, once a second one began

vars ==
  << property_value, cfg, pc, cur, done, property, value, value_set, found,
     valid, i, result, log, get, tokens, first >>

NoCall == [called |-> FALSE]

NoGet == PropertyParserGet(<< >>, 1)

Init ==
  /\ property_value \in PropertyValues
  /\ cfg = FreshConfig
  /\ pc = "start"
  /\ cur = 1
  /\ done = FALSE
  /\ property = << >>
  /\ value = 0
  /\ value_set = FALSE
  /\ found = FALSE
  /\ valid = TRUE
  /\ i = 0
  /\ result = FALSE
  /\ log = << >>
  /\ get = NoGet
  /\ tokens = << >>
  /\ first = NoCall

\* PropertyAbsent finding no property to be absent.
PropertyAbsent_Never(s) == FALSE

\* !__system_property_get(...): the value read has length 0.
PropertyAbsent(s) == Len(s) = 0

\* LogUsage logging nothing.
LogUsage_Silent(l) == l

\* parser.LogUsage(): the usage text, one entry of the log.
LogUsage(l) == Append(l, "usage")

\* if (valid && !found): the test that reports an unknown option.
IsUnknown(v, f) == v /\ ~f

\* AddOption as "options ^= features[i].option".
AddOption_Toggle(c, f) ==
  [c EXCEPT !.options = (@ \ f.option) \cup (f.option \ @)]

\* AddOption as "options = features[i].option".
AddOption_Assign(c, f) == [c EXCEPT !.options = f.option]

\* options |= features[i].option
AddOption(c, f) == [c EXCEPT !.options = @ \cup f.option]

\* Lines 243-313: the property is read; when it is there the defaults are
\* set and the parser and the locals are constructed.  value is not
\* initialized; property is the empty string; value_set is written by Get
\* before it is read.
Call ==
  /\ pc = "start"
  /\ IF PropertyAbsent(property_value)
     THEN /\ result' = FALSE
          /\ pc' = "returned"
          /\ UNCHANGED << cfg, cur, done, property, value, value_set, found,
                          valid, i >>
     ELSE /\ cfg' = InitDefaults(cfg)
          /\ cur' = 1
          /\ done' = FALSE
          /\ property' = << >>
          /\ value' \in UninitValues
          /\ value_set' = FALSE
          /\ found' = FALSE
          /\ valid' = TRUE
          /\ i' = 0
          /\ pc' = "loop"
          /\ UNCHANGED result
  /\ UNCHANGED << property_value, log, get, tokens, first >>

\* Line 314 with valid true: parser.Get is called (r is what the one call
\* returned and wrote).
GetToken ==
  /\ pc = "loop"
  /\ valid
  /\ \E r \in {PropertyParserGet(property_value, cur)} :
     LET v == IF r.wrote_value THEN r.value ELSE value
     IN /\ get' = r
        /\ cur' = r.cur
        /\ done' = (done \/ r.done)
        /\ property' = IF r.wrote_property THEN r.property ELSE property
        /\ value_set' = IF r.wrote_value_set THEN r.value_set ELSE value_set
        /\ value' = v
        /\ log' = IF r.err = "" THEN log ELSE Append(log, r.err)
        /\ tokens' = IF r.ret
                     THEN Append(tokens, [name |-> r.property,
                                          value |-> v,
                                          value_set |-> r.value_set])
                     ELSE tokens
        /\ pc' = IF r.ret THEN "scan" ELSE "post"
  /\ UNCHANGED << property_value, cfg, found, valid, i, result, first >>

\* Line 314 with valid false: the loop ends without a call of Get.
LoopExit ==
  /\ pc = "loop"
  /\ ~valid
  /\ pc' = "post"
  /\ UNCHANGED << property_value, cfg, cur, done, property, value, value_set,
                  found, valid, i, result, log, get, tokens, first >>

\* Lines 315-344 for a token: the table is scanned for the name.  Without a
\* match the for loop runs out and line 340 decides; a combo marker starts
\* the run after it; a concrete entry is applied.
Lookup ==
  /\ pc = "scan"
  /\ \E k \in {FindFeature(property)} :
        IF k = 0
        THEN IF IsUnknown(valid, found)
             THEN /\ log' = Append(log, "unknown option")
                  /\ valid' = FALSE
                  /\ pc' = "post"
                  /\ i' = NumFeatures + 1
                  /\ UNCHANGED << cfg, found >>
             ELSE /\ pc' = "loop"
                  /\ i' = NumFeatures + 1
                  /\ UNCHANGED << cfg, found, valid, log >>
        ELSE IF IsComboMarker(features[k])
        THEN /\ i' = k + 1
             /\ pc' = "combo"
             /\ UNCHANGED << cfg, found, valid, log >>
        ELSE \E r \in {SetFeature(cfg, features[k], value, value_set)} :
                /\ i' = k
                /\ pc' = "loop"
                /\ IF r.ok
                   THEN /\ cfg' = AddOption(r.cfg, features[k])
                        /\ found' = TRUE
                        /\ UNCHANGED << valid, log >>
                   ELSE /\ cfg' = r.cfg
                        /\ valid' = FALSE
                        /\ log' = Append(log, r.err)
                        /\ UNCHANGED found
  /\ UNCHANGED << property_value, cur, done, property, value, value_set,
                  result, get, tokens, first >>

\* Lines 319-328: one turn of the loop over the combo run, or its end.
ComboEntry ==
  /\ pc = "combo"
  /\ IF i <= NumFeatures /\ features[i].combo_option
     THEN \E r \in {SetFeature(cfg, features[i], value, value_set)} :
             IF r.ok
             THEN /\ cfg' = AddOption(r.cfg, features[i])
                  /\ i' = i + 1
                  /\ UNCHANGED << pc, found, valid, log >>
             ELSE /\ cfg' = r.cfg
                  /\ valid' = FALSE
                  /\ log' = Append(log, r.err)
                  /\ pc' = "loop"
                  /\ UNCHANGED << i, found >>
     ELSE /\ found' = TRUE
          /\ pc' = "loop"
          /\ UNCHANGED << cfg, i, valid, log >>
  /\ UNCHANGED << property_value, cur, done, property, value, value_set,
                  result, get, tokens, first >>

\* Lines 347-366: the verdict, then the two normalizations or the usage.
Finish ==
  /\ pc = "post"
  /\ LET v == valid /\ done
     IN /\ valid' = v
        /\ cfg' = AfterParse(cfg, v)
        /\ log' = IF v THEN log ELSE LogUsage(log)
        /\ result' = v
  /\ pc' = "returned"
  /\ UNCHANGED << property_value, cur, done, property, value, value_set,
                  found, i, get, tokens, first >>

\* SetFromProperties is called a second time with the property unchanged,
\* on the Config the first call wrote or on another fresh Config.
CallAgain ==
  /\ pc = "returned"
  /\ first = NoCall
  /\ \E reuse \in BOOLEAN :
       /\ first' = [called |-> TRUE, property_value |-> property_value,
                    result |-> result, cfg |-> cfg, reuse |-> reuse]
       /\ cfg' = IF reuse THEN cfg ELSE FreshConfig
  /\ pc' = "start"
  /\ log' = << >>
  /\ tokens' = << >>
  /\ get' = NoGet
  /\ UNCHANGED << property_value, cur, done, property, value, value_set,
                  found, valid, i, result >>

\* SetFromProperties is called a second time on the Config the first call
\* wrote, after the property was set to another value.
CallNext ==
  /\ pc = "returned"
  /\ first = NoCall
  /\ property_value' \in ReuseSecondValues
  /\ first' = [called |-> TRUE, property_value |-> property_value,
               result |-> result, cfg |-> cfg, reuse |-> TRUE]
  /\ pc' = "start"
  /\ log' = << >>
  /\ tokens' = << >>
  /\ get' = NoGet
  /\ UNCHANGED << cfg, cur, done, property, value, value_set, found, valid,
                  i, result >>

\* After a build from one marker token, SetFromProperties is called on a
\* fresh Config with the property set to the token written out.
CallExpanded ==
  /\ pc = "returned"
  /\ first = NoCall
  /\ property_value' \in Expansions(property_value)
  /\ first' = [called |-> TRUE, property_value |-> property_value,
               result |-> result, cfg |-> cfg, reuse |-> FALSE]
  /\ cfg' = FreshConfig
  /\ pc' = "start"
  /\ log' = << >>
  /\ tokens' = << >>
  /\ get' = NoGet
  /\ UNCHANGED << cur, done, property, value, value_set, found, valid, i,
                  result >>

\* A caller other than SetFromProperties calls Get on its PropertyParser,
\* as often as it likes, also after a failure and after Done.
ParserGet ==
  /\ pc = "parser"
  /\ \E r \in {PropertyParserGet(property_value, cur)} :
     LET v == IF r.wrote_value THEN r.value ELSE value
     IN /\ get' = r
        /\ cur' = r.cur
        /\ done' = (done \/ r.done)
        /\ property' = IF r.wrote_property THEN r.property ELSE property
        /\ value_set' = IF r.wrote_value_set THEN r.value_set ELSE value_set
        /\ value' = v
        /\ log' = IF r.err = "" THEN log ELSE Append(log, r.err)
        /\ tokens' = IF r.ret
                     THEN Append(tokens, [name |-> r.property,
                                          value |-> v,
                                          value_set |-> r.value_set])
                     ELSE tokens
  /\ UNCHANGED << property_value, cfg, pc, found, valid, i, result, first >>

Next == Call \/ GetToken \/ LoopExit \/ Lookup \/ ComboEntry \/ Finish

Spec == Init /\ [][Next]_vars

\* The build with every step that can be taken eventually taken: the
\* function runs on, nothing outside it holds it up.
SpecLive == Init /\ [][Next]_vars /\ WF_vars(Next)

\* Two calls of SetFromProperties.
SpecTwice == Init /\ [][Next \/ CallAgain]_vars

\* A fresh Config and the property set to one of the strings of S, before
\* SetFromProperties is called.
InitOn(S) ==
  /\ property_value \in S
  /\ cfg = FreshConfig
  /\ pc = "start"
  /\ cur = 1
  /\ done = FALSE
  /\ property = << >>
  /\ value = 0
  /\ value_set = FALSE
  /\ found = FALSE
  /\ valid = TRUE
  /\ i = 0
  /\ result = FALSE
  /\ log = << >>
  /\ get = NoGet
  /\ tokens = << >>
  /\ first = NoCall

InitReuse == InitOn(ReuseFirstValues)

InitCombo == InitOn(ComboValues)

\* A marker token is built, then its written-out form on a fresh Config.
SpecCombo == InitCombo /\ [][Next \/ CallExpanded]_vars

\* A PropertyParser constructed on the string (line 67), for
\* SetFromProperties or for a caller that only calls Get.
InitParser ==
  /\ property_value \in PropertyValues
  /\ cfg = FreshConfig
  /\ pc \in {"start", "parser"}
  /\ cur = 1
  /\ done = FALSE
  /\ property = << >>
  /\ value = 0
  /\ value_set = FALSE
  /\ found = FALSE
  /\ valid = TRUE
  /\ i = 0
  /\ result = FALSE
  /\ log = << >>
  /\ get = NoGet
  /\ tokens = << >>
  /\ first = NoCall

\* The build, and the parser used alone.
SpecParser == InitParser /\ [][Next \/ ParserGet]_vars

\* Two calls of SetFromProperties on one Config, the property set anew in
\* between.
SpecReuse == InitReuse /\ [][Next \/ CallNext]_vars

-----------------------------------------------------------------------------
(* Vocabulary of the properties *)

Returned == pc = "returned"

\* The token name=n, n written in decimal.
NumToken(name, n) == name \o << "=" >> \o Dec(n)

LastToken == tokens[Len(tokens)]

Row(name) == features[FindFeature(name)]

\* The least multiple of MINIMUM_ALIGNMENT_BYTES that is >= n.
LeastMultiple(n) ==
  CHOOSE m \in n..(n + MINIMUM_ALIGNMENT_BYTES - 1) :
    m % MINIMUM_ALIGNMENT_BYTES = 0

\* The options that store a number, the two combo markers included.
NumericNames == FeatureNames \ {N_leak_track}

\* The numeric fields a token of that name is to write.
ClaimSlots(name) ==
  CASE name = N_guard -> {"front_guard_bytes", "rear_guard_bytes"}
    [] name = N_fill -> {"fill_on_alloc_bytes", "fill_on_free_bytes"}
    [] name = N_leak_track -> {}
    [] OTHER -> {Row(name).value}

\* The documented default of each option.
ClaimDefault(name) ==
  CASE name \in {N_guard, N_front_guard, N_rear_guard} -> 32
    [] name \in {N_backtrace, N_backtrace_enable_on_signal, N_expand_alloc,
                 N_free_track_backtrace_num_frames} -> 16
    [] name = N_free_track -> 100
    [] name \in {N_fill, N_fill_on_alloc, N_fill_on_free} -> SIZE_MAX
    [] OTHER -> 0

\* A fresh Config after the defaults of a call were set and nothing else.
Untouched == InitDefaults(FreshConfig)

\* A token that is to fail by its kind: an unknown name, a value outside
\* the bounds of its row, a value given to the option that takes none.
TokenFails(t) ==
  \/ t.name \notin FeatureNames
  \/ /\ t.name \in FeatureNames
     /\ t.value_set
     /\ \/ t.name = N_leak_track
        \/ t.value < Row(t.name).min_value
        \/ t.value > Row(t.name).max_value

\* Token k of this call has been dealt with completely.
Completed(k) == k < Len(tokens) \/ pc \in {"loop", "post", "returned"}

\* The last call of Get ended with an error.
ParserFailed == ~get.ret /\ ~get.done

\* Some token of this call has failed.
AFailure ==
  \/ ParserFailed
  \/ \E k \in 1..Len(tokens) : TokenFails(tokens[k]) /\ Completed(k)

-----------------------------------------------------------------------------
(* C1 *)

\* C1: whenever a token whose name is in no table entry was parsed, the
\* call returns failure, wherever that token stands.
C1_UnknownOptionFails ==
  (Returned /\ \E k \in 1..Len(tokens) : tokens[k].name \notin FeatureNames)
    => result = FALSE

(* C2 *)

\* C2: once a token has failed, no later step changes the Config, and the
\* call returns failure.
C2_FailFast ==
  [][AFailure => (cfg' = cfg /\ (pc' = "returned" => result' = FALSE))]_vars

(* C3 *)

\* C3: "guard=N" with 1 <= N <= 16384 on a fresh Config succeeds with
\* exactly the two guard bits, rear_guard_bytes = N and front_guard_bytes
\* the least multiple of the alignment that is >= N.
C3_GuardValue ==
  \A n \in Values :
    (Returned /\ first = NoCall /\ 1 <= n /\ n <= 16384
       /\ property_value = NumToken(N_guard, n))
      => /\ result
         /\ cfg.options = {"FRONT_GUARD", "REAR_GUARD"}
         /\ cfg.rear_guard_bytes = n
         /\ cfg.front_guard_bytes % MINIMUM_ALIGNMENT_BYTES = 0
         /\ cfg.front_guard_bytes >= n
         /\ cfg.front_guard_bytes < n + MINIMUM_ALIGNMENT_BYTES

C3_Witness ==
  /\ Returned
  /\ property_value = NumToken(N_guard, 10)
  /\ result
  /\ cfg.rear_guard_bytes = 10
  /\ cfg.front_guard_bytes = 16

(* C4 *)

\* C4 as stated: a single token name=v of a numeric option builds exactly
\* when v lies within the bounds of the row.
C4_AcceptedIffInBounds ==
  \A name \in NumericNames : \A v \in Values :
    (Returned /\ first = NoCall /\ property_value = NumToken(name, v))
      => (result <=> (Row(name).min_value <= v /\ v <= Row(name).max_value))

\* C4 as amended: a single token name=v of a numeric option builds exactly
\* when v lies within the bounds of the row and is at most LONG_MAX; when
\* rejected no numeric field the token reaches is changed, when accepted
\* each holds v (the front guard rounded up to the alignment).
C4_AcceptedIffInBoundsOfLong ==
  (Returned /\ first = NoCall) =>
  \A name \in NumericNames : \A v \in Values :
    property_value = NumToken(name, v)
      => /\ result <=> /\ Row(name).min_value <= v
                       /\ v <= Row(name).max_value
                       /\ v <= LONG_MAX
         /\ \A slot \in ClaimSlots(name) :
              cfg[slot] = IF ~result THEN Untouched[slot]
                          ELSE IF slot = "front_guard_bytes"
                          THEN LeastMultiple(v)
                          ELSE v

C4_Witness ==
  /\ Returned
  /\ property_value = NumToken(N_fill_on_alloc, LONG_MAX + 1)
  /\ ~result
  /\ cfg.fill_on_alloc_bytes = 0
  /\ cfg.options = {}

(* C5 *)

\* The text of the token Get returned last has no "=" after its name.
TextHasNoValue ==
  CharAt(property_value,
         SkipSpace(property_value, get.name_start + Len(get.property))) # "="

\* C5: a token given without "=value" is reported with value_set false and
\* every numeric field it reaches holds the documented default, whatever
\* the local value holds; after a successful return the front guard's
\* default is rounded up to the alignment.
C5_DefaultWithoutValue ==
  /\ (pc = "loop" /\ get.ret /\ get.property \in FeatureNames
        /\ TextHasNoValue)
       => /\ ~value_set
          /\ \A slot \in ClaimSlots(get.property) :
               cfg[slot] = ClaimDefault(get.property)
  /\ (Returned /\ result /\ tokens # << >> /\ ~LastToken.value_set
        /\ LastToken.name \in FeatureNames)
       => \A slot \in ClaimSlots(LastToken.name) :
            cfg[slot] = IF slot = "front_guard_bytes"
                        THEN LeastMultiple(ClaimDefault(LastToken.name))
                        ELSE ClaimDefault(LastToken.name)

\* "guard=10 rear_guard": the local value still holds 10.
C5_Witness ==
  /\ Returned
  /\ result
  /\ Len(tokens) = 2
  /\ tokens[1].value_set
  /\ LastToken.name = N_rear_guard
  /\ ~LastToken.value_set
  /\ value = 10
  /\ cfg.rear_guard_bytes = 32

(* C6 *)

\* The tokens of this call that write fill_on_free_bytes.
FillOnFreeTokens ==
  {k \in 1..Len(tokens) : tokens[k].name \in {N_fill_on_free, N_fill}}

\* C6: after a successful build on a fresh Config with FILL_ON_FREE on,
\* fill_on_free_bytes is SIZE_MAX when no fill_on_free or fill token was
\* given, and else the value (or default) of the last such token.
C6_FillOnFreeBytes ==
  (Returned /\ first = NoCall /\ result /\ "FILL_ON_FREE" \in cfg.options)
    => IF FillOnFreeTokens = {}
       THEN cfg.fill_on_free_bytes = SIZE_MAX
       ELSE LET k == CHOOSE j \in FillOnFreeTokens :
                       \A m \in FillOnFreeTokens : m <= j
            IN cfg.fill_on_free_bytes =
                 IF tokens[k].value_set THEN tokens[k].value ELSE SIZE_MAX

\* "fill_on_free=8 free_track"
C6_Witness ==
  /\ Returned
  /\ result
  /\ Len(tokens) = 2
  /\ tokens[1].name = N_fill_on_free
  /\ tokens[2].name = N_free_track
  /\ "FREE_TRACK" \in cfg.options
  /\ cfg.fill_on_free_bytes = 8

(* C7 *)

\* The text after the "=" of the last call of Get, as written.
TextEmpty ==
  isspace(CharAt(property_value, get.num_start))
    \/ CharAt(property_value, get.num_start) = NUL

\* Where the number is to start: after the white space that may follow "=".
NumberAt == SkipSpace(property_value, get.num_start)

HasSign == CharAt(property_value, NumberAt) \in {"+", "-"}

DigitsAt == IF HasSign THEN NumberAt + 1 ELSE NumberAt

DigitsEnd == SkipDigits(property_value, DigitsAt)

NoNumber == DigitsEnd = DigitsAt

TrailingGarbage ==
  /\ DigitsEnd > DigitsAt
  /\ ~isspace(CharAt(property_value, DigitsEnd))
  /\ CharAt(property_value, DigitsEnd) # NUL

NegativeNumber ==
  /\ DigitsEnd > DigitsAt
  /\ CharAt(property_value, NumberAt) = "-"
  /\ \E j \in DigitsAt..(DigitsEnd - 1) : property_value[j] # "0"

\* What a failed call of Get leaves: no token, Done not reached, the build a
\* failure, and a bad-value error rather than an unknown-option error logged.
FailedAsMalformed ==
  /\ ~get.ret
  /\ ~done
  /\ pc \in {"post", "returned"}
  /\ Returned => ~result
  /\ \E k \in 1..Len(log) :
       log[k] \in {"bad value", "bad value: non space found after option",
                   "bad value: value cannot be negative", "bad value: errno"}
  /\ \A k \in 1..Len(log) : log[k] # "unknown option"

\* C7 as stated: Get fails whenever the text written after "=" is empty or
\* not a number, a non-space follows the digits, or the number is negative.
C7_MalformedFails ==
  (get.num_start # 0
     /\ (TextEmpty \/ NoNumber \/ TrailingGarbage \/ NegativeNumber))
    => FailedAsMalformed

\* C7 as amended: Get fails, before any lookup of the name, whenever no
\* number starts after the "=" and the white space that may follow it, a
\* non-space follows the digits, or the number is negative.
C7_MalformedAfterSpaceFails ==
  (get.num_start # 0 /\ (NoNumber \/ TrailingGarbage \/ NegativeNumber))
    => FailedAsMalformed

\* "backtrace=10 unknown_option=x"
C7_Witness ==
  /\ Returned
  /\ property_value =
       NumToken(N_backtrace, 10) \o << " " >> \o N_unknown_option
         \o << "=", "x" >>
  /\ ~result
  /\ log = << "bad value", "usage" >>
  /\ Len(tokens) = 1

(* C8 *)

\* C8: "leak_track=N" fails for every N and turns on neither LEAK_TRACK nor
\* TRACK_ALLOCS; "leak_track" alone succeeds with exactly these two bits.
C8_LeakTrackTakesNoValue ==
  /\ \A n \in Values :
       (Returned /\ first = NoCall
          /\ property_value = NumToken(N_leak_track, n))
         => /\ ~result
            /\ cfg.options \cap {"LEAK_TRACK", "TRACK_ALLOCS"} = {}
  /\ (Returned /\ first = NoCall /\ property_value = N_leak_track)
       => /\ result
          /\ cfg.options = {"LEAK_TRACK", "TRACK_ALLOCS"}

\* "leak_track=0"
C8_Witness ==
  /\ Returned
  /\ property_value = NumToken(N_leak_track, 0)
  /\ ~result
  /\ log = << "value set for option which does not take a value", "usage" >>

(* C9 *)

SignedText(sg, n) ==
  /\ get.num_start # 0
  /\ SubSeq(property_value, get.num_start, Len(property_value))
       = << sg >> \o Dec(n)

C10_Idempotent ==
  (Returned /\ first # NoCall /\ first.property_value = property_value)
    => /\ result = first.result
       /\ cfg = first.cfg

\* The second build on the same Config: the front guard stays at 16 and the
\* fill-on-free count at SIZE_MAX.
C10_Witness ==
  /\ Returned
  /\ first # NoCall
  /\ first.reuse
  /\ result
  /\ cfg = first.cfg
  /\ cfg.front_guard_bytes = 16
  /\ cfg.fill_on_free_bytes = SIZE_MAX

(* C11 *)

\* The errors of single tokens: every entry of the log but the usage text.
SpecificErrors ==
  {"bad value: errno", "bad value", "bad value: non space found after option",
   "bad value: value cannot be negative", "bad value: value must be >=",
   "bad value: value must be <=",
   "value set for option which does not take a value", "unknown option"}

\* C11: for a present string the usage text is in the log exactly when the
\* call has returned failure; it is then the last entry, logged once, the
\* parse loop is over, and the entry before it is the error of the failing
\* token.
C11_UsageIffFailure ==
  /\ (Returned /\ property_value # << >>)
       => (~result <=> \E k \in 1..Len(log) : log[k] = "usage")
  /\ \A k \in 1..Len(log) :
       log[k] = "usage"
         => /\ Returned
            /\ ~result
            /\ k = Len(log)
            /\ k >= 2
            /\ \A j \in 1..(k - 1) : log[j] \in SpecificErrors
  /\ (pc \in {"loop", "scan", "combo"})
       => \A k \in 1..Len(log) : log[k] # "usage"

\* "guard=10 leak_track=1": the error of the second token, then the usage.
C11_Witness ==
  /\ Returned
  /\ ~result
  /\ Len(tokens) = 2
  /\ tokens[2].name = N_leak_track
  /\ log = << "value set for option which does not take a value", "usage" >>

(* C12 *)

\* C12: with the property absent the call returns failure in one step
\* that changes no field and no bit of the Config, parses no token and logs
\* nothing.
C12_AbsentIsNoOp ==
  [][(pc = "start" /\ property_value = << >>)
       => /\ pc' = "returned"
          /\ result' = FALSE
          /\ cfg' = cfg
          /\ log' = log /\ log = << >>
          /\ tokens' = tokens /\ tokens = << >>
          /\ get' = get /\ get = NoGet
          /\ cur' = cur /\ done' = done]_vars

\* The property was removed after "guard=10" was built: the second call
\* leaves what the first wrote.
C12_Witness ==
  /\ Returned
  /\ property_value = << >>
  /\ first # NoCall
  /\ first.property_value = NumToken(N_guard, 10)
  /\ ~result
  /\ cfg = first.cfg
  /\ cfg.front_guard_bytes = 16
  /\ cfg.options = {"FRONT_GUARD", "REAR_GUARD"}
  /\ log = << >>

(* C13 *)

\* The string is empty or holds white space only.
AllSpace(s) == \A k \in 1..Len(s) : isspace(s[k])

\* C13: on an empty or all-white-space string every call of Get, the first
\* and each later one, returns no token and has Done set, so that no token
\* is ever returned and Done stays set once a call was made; a build on a
\* present all-white-space string succeeds with no token applied, no bit
\* set and nothing logged.
C13_WhitespaceIsDone ==
  /\ (pc = "parser" /\ AllSpace(property_value))
       => /\ ~PropertyParserGet(property_value, cur).ret
          /\ PropertyParserGet(property_value, cur).done
          /\ PropertyParserGet(property_value, cur).err = ""
          /\ tokens = << >>
          /\ log = << >>
          /\ cur # 1 => done
          /\ done => get.done /\ ~get.ret
  /\ (pc = "post" /\ AllSpace(property_value))
       => done /\ valid /\ tokens = << >>
  /\ (Returned /\ AllSpace(property_value)
        /\ property_value # << >>)
       => /\ result
          /\ cfg = Untouched
          /\ cfg.options = {}
          /\ tokens = << >>
          /\ log = << >>

\* Get was called on " \t ": Done, the cursor on the terminator.
C13_Witness ==
  /\ pc = "parser"
  /\ property_value = << " ", "\t", " " >>
  /\ done
  /\ cur = 4
  /\ tokens = << >>
  /\ PropertyParserGet(property_value, cur).done

(* C14 *)

\* The concrete entries a token of that name reaches, by their place in
\* the table: its own entry, or for the markers guard and fill the two
\* entries they stand for; none for any other name.
Reach(name) ==
  CASE name = N_guard -> {2, 3}
    [] name = N_front_guard -> {2}
    [] name = N_rear_guard -> {3}
    [] name = N_backtrace -> {4}
    [] name = N_backtrace_enable_on_signal -> {5}
    [] name = N_fill -> {7, 8}
    [] name = N_fill_on_alloc -> {7}
    [] name = N_fill_on_free -> {8}
    [] name = N_expand_alloc -> {9}
    [] name = N_free_track -> {10}
    [] name = N_free_track_backtrace_num_frames -> {11}
    [] name = N_leak_track -> {12}
    [] OTHER -> {}

\* Entry j refuses the token t.
Rejects(j, t) ==
  /\ t.value_set
  /\ \/ features[j].value = "nullptr"
     \/ t.value < features[j].min_value
     \/ t.value > features[j].max_value

\* The entries below upto that took the token t: those it reaches, in the
\* order of the table, before the first that refuses it.
Applied(t, upto) ==
  UNION {{j \in R : /\ j < upto
                    /\ \A m \in R : m <= j => ~Rejects(m, t)} :
           R \in {Reach(t.name)}}

\* How far the table was gone through for token k.
Progress(k) ==
  IF Completed(k) THEN NumFeatures + 1
  ELSE IF pc = "combo" THEN i
  ELSE 0

\* The bits of the entries that have taken a token so far.
AppliedBits ==
  UNION {features[j].option :
           j \in UNION {Applied(tokens[k], Progress(k)) : k \in 1..Len(tokens)}}

\* C14: on a fresh Config, in every state of the build, the bitmask is the
\* union of the bits of the concrete entries that have taken a token so
\* far; "backtrace=0" and "guard=16385" leave it empty.
C14_BitmaskIsUnionOfApplied ==
  /\ (first = NoCall /\ pc # "parser") => cfg.options = AppliedBits
  /\ (Returned /\ first = NoCall
        /\ property_value \in {NumToken(N_backtrace, 0),
                                NumToken(N_guard, 16385)})
       => ~result /\ cfg.options = {}

\* "guard=10 ..." after front_guard took the 10 and before rear_guard does.
C14_Witness ==
  /\ pc = "combo"
  /\ i = 3
  /\ Len(tokens) = 1
  /\ tokens[1].name = N_guard
  /\ cfg.options = {"FRONT_GUARD"}
  /\ AppliedBits = {"FRONT_GUARD"}

(* C15 *)

\* The numeric and boolean fields a build may write.
WrittenFields ==
  {"front_guard_bytes", "rear_guard_bytes", "backtrace_frames",
   "fill_on_alloc_bytes", "fill_on_free_bytes", "expand_alloc_bytes",
   "free_track_allocations", "free_track_backtrace_num_frames",
   "backtrace_enabled", "backtrace_enable_on_signal"}

\* The entries that are no marker although they have combo_option or the
\* bit-flag 0.
DirectNames ==
  {N_front_guard, N_rear_guard, N_fill_on_alloc, N_fill_on_free,
   N_free_track_backtrace_num_frames}

\* C15: the build of the marker token written out as the entries of its
\* run ("front_guard=v rear_guard=v" for "guard=v", "fill_on_alloc=v
\* fill_on_free=v" for "fill=v", v any text or none) returns what the build
\* of the marker token returned and leaves the same bitmask and fields; the
\* run of a marker is entered for guard and fill only, and a successful
\* token of one of the other five names sets the bits of its own entry and
\* writes its own field only.
C15_ComboIsItsRun ==
  /\ (Returned /\ first # NoCall)
       => /\ result = first.result
          /\ cfg = first.cfg
  /\ pc = "combo" => LastToken.name \in {N_guard, N_fill}
  /\ (Returned /\ first = NoCall /\ result /\ Len(tokens) = 1
        /\ LastToken.name \in DirectNames)
       => /\ cfg.options = Row(LastToken.name).option
          /\ \A fld \in WrittenFields \ {Row(LastToken.name).value} :
               cfg[fld] = Untouched[fld]
          /\ \E v \in {IF LastToken.value_set THEN LastToken.value
                        ELSE Row(LastToken.name).default_value} :
               cfg[Row(LastToken.name).value] =
                 IF LastToken.name = N_front_guard THEN LeastMultiple(v) ELSE v

\* "front_guard=10 rear_guard=10" was built after "guard=10".
C15_Witness ==
  /\ Returned
  /\ first # NoCall
  /\ first.property_value = NumToken(N_guard, 10)
  /\ property_value =
       NumToken(N_front_guard, 10) \o << " " >> \o NumToken(N_rear_guard, 10)
  /\ Len(tokens) = 2
  /\ result
  /\ cfg = first.cfg
  /\ cfg.options = {"FRONT_GUARD", "REAR_GUARD"}
  /\ cfg.front_guard_bytes = 16
  /\ cfg.rear_guard_bytes = 10

(* C16 *)

\* A token of that name was returned by Get and SetFeature was called on
\* its entry.
WasApplied(name) ==
  \E k \in 1..Len(tokens) : tokens[k].name = name /\ Completed(k)

\* C16: on a fresh Config, in every state of the build, backtrace_enabled
\* is true exactly when SetFeature was called for a "backtrace" token, and
\* backtrace_enable_on_signal exactly when it was called for a
\* "backtrace_enable_on_signal" token, whether the value was in range or
\* not; "backtrace=0" fails with the boolean true and no bit set.
C16_BooleanSetFirst ==
  /\ (first = NoCall /\ pc # "parser")
       => /\ cfg.backtrace_enabled <=> WasApplied(N_backtrace)
          /\ cfg.backtrace_enable_on_signal
               <=> WasApplied(N_backtrace_enable_on_signal)
  /\ \A name \in {N_backtrace, N_backtrace_enable_on_signal} :
       \A n \in {0, 257} :
         (Returned /\ first = NoCall /\ property_value = NumToken(name, n))
           => /\ ~result
              /\ cfg[Row(name).config]
              /\ cfg.backtrace_frames = 0
              /\ cfg.options = {}

\* "backtrace_enable_on_signal=257"
C16_Witness ==
  /\ Returned
  /\ property_value = NumToken(N_backtrace_enable_on_signal, 257)
  /\ ~result
  /\ cfg.backtrace_enable_on_signal
  /\ ~cfg.backtrace_enabled
  /\ cfg.backtrace_frames = 0
  /\ cfg.options = {}

(* C17 *)

\* The numeric fields of the table.
NumericSlots ==
  {features[j].value : j \in 1..NumFeatures} \ {"nullptr"}

RECURSIVE AppliedUpTo(_)
\* For each of the first k tokens, the entries that have taken it so far.
AppliedUpTo(k) ==
  IF k = 0 THEN << >>
  ELSE Append(AppliedUpTo(k - 1), Applied(tokens[k], Progress(k)))

RECURSIVE RawFrom(_, _, _)
\* What the first k tokens have left in the field slot, applied being the
\* entries that took each token: the value of the last token that wrote
\* the field, or the default of its entry when that token has no value;
\* what construction left when none wrote it.
RawFrom(applied, slot, k) ==
  IF k = 0
  THEN Untouched[slot]
  ELSE IF \A j \in applied[k] : features[j].value # slot
  THEN RawFrom(applied, slot, k - 1)
  ELSE IF tokens[k].value_set
  THEN tokens[k].value
  ELSE features[CHOOSE j \in applied[k] :
                  features[j].value = slot].default_value

\* Every numeric field holds what the tokens so far have left in it.
FieldsAreRaw ==
  \A applied \in {AppliedUpTo(Len(tokens))} :
    \A slot \in NumericSlots :
      cfg[slot] = RawFrom(applied, slot, Len(tokens))

\* C17: after a failed build from a present property on a fresh Config
\* every numeric field holds what the tokens applied before the failure
\* wrote, not rounded and not replaced
\* ("guard=10 backtrace=0": front_guard_bytes 10 with FRONT_GUARD;
\* "free_track backtrace=0": fill_on_free_bytes 0 with FILL_ON_FREE).
C17_NoNormalizationOnFailure ==
  /\ (Returned /\ ~result /\ first = NoCall /\ property_value # << >>)
       => FieldsAreRaw
  /\ (Returned /\ first = NoCall
        /\ property_value =
              NumToken(N_guard, 10) \o << " " >> \o NumToken(N_backtrace, 0))
       => /\ ~result
          /\ cfg.front_guard_bytes = 10
          /\ cfg.rear_guard_bytes = 10
          /\ cfg.options = {"FRONT_GUARD", "REAR_GUARD"}
  /\ (Returned /\ first = NoCall
        /\ property_value =
              N_free_track \o << " " >> \o NumToken(N_backtrace, 0))
       => /\ ~result
          /\ cfg.fill_on_free_bytes = 0
          /\ cfg.free_track_allocations = 100
          /\ cfg.options = {"FREE_TRACK", "FILL_ON_FREE"}

\* "guard=10 backtrace=0" has failed.
C17_Witness ==
  /\ Returned
  /\ ~result
  /\ Len(tokens) = 2
  /\ tokens[1].name = N_guard
  /\ tokens[2].name = N_backtrace
  /\ tokens[2].value = 0
  /\ cfg.front_guard_bytes = 10
  /\ "FRONT_GUARD" \in cfg.options
  /\ cfg.backtrace_enabled

(* C18 *)

\* The fields the entries reached by the tokens of this call address.
ReachedFields ==
  UNION {{features[j].value, features[j].config} :
           j \in UNION {Reach(tokens[k].name) : k \in 1..Len(tokens)}}

\* The fields no token of this call reaches, the one whose default the
\* call sets anew left aside.
KeptFields ==
  WrittenFields \ (ReachedFields \cup {"free_track_backtrace_num_frames"})

\* C18 as stated: after a second call on the same Config the bitmask
\* includes that of the first call, every field no token of the second
\* string reaches has the value the first call left, and
\* free_track_backtrace_num_frames, when no token reaches it, is 16.
C18_SecondCallKeeps ==
  (Returned /\ first # NoCall)
    => /\ first.cfg.options \subseteq cfg.options
       /\ \A fld \in KeptFields : cfg[fld] = first.cfg[fld]
       /\ "free_track_backtrace_num_frames" \notin ReachedFields
            => cfg.free_track_backtrace_num_frames = 16

\* What the first call left in the field fld, after the normalizations of
\* a successful second call: front_guard_bytes rounded up when FRONT_GUARD
\* is set, fill_on_free_bytes 0 replaced when FILL_ON_FREE is set.
KeptValue(fld) ==
  IF result /\ fld = "front_guard_bytes" /\ "FRONT_GUARD" \in cfg.options
  THEN LeastMultiple(first.cfg[fld])
  ELSE IF result /\ fld = "fill_on_free_bytes"
            /\ "FILL_ON_FREE" \in cfg.options /\ first.cfg[fld] = 0
  THEN SIZE_MAX
  ELSE first.cfg[fld]

\* C18 as amended: after a second call on the same Config the bitmask
\* includes that of the first call.  With the property absent the Config is
\* as the first call left it.  With it present every field no token of the
\* second string reaches has the value the first call left, but for the two
\* normalizations when the second call succeeds; the pattern bytes and the
\* signal are the defaults, and free_track_backtrace_num_frames, when no
\* token reaches it, is 16.
C18_SecondCallKeepsButNormalizes ==
  (Returned /\ first # NoCall)
    => /\ first.cfg.options \subseteq cfg.options
       /\ property_value = << >> => cfg = first.cfg
       /\ property_value # << >>
            => /\ \A fld \in KeptFields : cfg[fld] = KeptValue(fld)
               /\ "free_track_backtrace_num_frames" \notin ReachedFields
                    => cfg.free_track_backtrace_num_frames = 16
               /\ cfg.fill_alloc_value = DEFAULT_FILL_ALLOC_VALUE
               /\ cfg.fill_free_value = DEFAULT_FILL_FREE_VALUE
               /\ cfg.front_guard_value = DEFAULT_FRONT_GUARD_VALUE
               /\ cfg.rear_guard_value = DEFAULT_REAR_GUARD_VALUE
               /\ cfg.backtrace_signal = BACKTRACE_SIGNAL

\* "leak_track" was built on the Config that the failed build of
\* "guard=10 backtrace=0" left.
C18_Witness ==
  /\ Returned
  /\ first # NoCall
  /\ first.property_value =
       NumToken(N_guard, 10) \o << " " >> \o NumToken(N_backtrace, 0)
  /\ ~first.result
  /\ first.cfg.front_guard_bytes = 10
  /\ property_value = N_leak_track
  /\ result
  /\ cfg.front_guard_bytes = 16
  /\ cfg.rear_guard_bytes = 10
  /\ cfg.backtrace_enabled
  /\ cfg.options =
       {"FRONT_GUARD", "REAR_GUARD", "LEAK_TRACK", "TRACK_ALLOCS"}

(* C19 *)

\* The raw value v of the field slot after the normalizations of a
\* successful build.
Normalized(slot, v) ==
  IF slot = "front_guard_bytes" /\ "FRONT_GUARD" \in cfg.options
  THEN LeastMultiple(v)
  ELSE IF slot = "fill_on_free_bytes" /\ "FILL_ON_FREE" \in cfg.options
            /\ v = 0
  THEN SIZE_MAX
  ELSE v

\* The string is the two tokens a and b with one space between.
TwoTokens(a, b) == property_value = a \o << " " >> \o b

\* C19: after a successful build on a fresh Config every numeric field
\* holds the value, or the default, of the last token that wrote it
\* (normalized), while the bitmask holds the bits of all applied entries and
\* each boolean is true when any token of its option was applied:
\* "guard=10 rear_guard=64" leaves the rear guard at 64 and the front guard
\* at 16, "backtrace=10 backtrace=256" leaves 256 frames, and
\* "backtrace=10 backtrace_enable_on_signal" leaves the default 16 frames
\* with both booleans true.
C19_LastWriterWins ==
  /\ (Returned /\ result /\ first = NoCall)
       => /\ \A applied \in {AppliedUpTo(Len(tokens))} :
               \A slot \in NumericSlots :
                 cfg[slot] =
                   Normalized(slot, RawFrom(applied, slot, Len(tokens)))
          /\ cfg.options = AppliedBits
          /\ cfg.backtrace_enabled <=> WasApplied(N_backtrace)
          /\ cfg.backtrace_enable_on_signal
               <=> WasApplied(N_backtrace_enable_on_signal)
  /\ (Returned /\ first = NoCall
        /\ TwoTokens(NumToken(N_guard, 10), NumToken(N_rear_guard, 64)))
       => /\ result
          /\ cfg.rear_guard_bytes = 64
          /\ cfg.front_guard_bytes = 16
          /\ cfg.options = {"FRONT_GUARD", "REAR_GUARD"}
  /\ (Returned /\ first = NoCall
        /\ TwoTokens(NumToken(N_backtrace, 10), NumToken(N_backtrace, 256)))
       => /\ result
          /\ cfg.backtrace_frames = 256
          /\ cfg.options = {"BACKTRACE", "TRACK_ALLOCS"}
  /\ (Returned /\ first = NoCall
        /\ TwoTokens(NumToken(N_backtrace, 10), N_backtrace_enable_on_signal))
       => /\ result
          /\ cfg.backtrace_frames = 16
          /\ cfg.backtrace_enabled
          /\ cfg.backtrace_enable_on_signal
          /\ cfg.options = {"BACKTRACE", "TRACK_ALLOCS"}

\* "guard=10 rear_guard=64"
C19_Witness ==
  /\ Returned
  /\ result
  /\ TwoTokens(NumToken(N_guard, 10), NumToken(N_rear_guard, 64))
  /\ Len(tokens) = 2
  /\ tokens[1].value = 10
  /\ cfg.rear_guard_bytes = 64
  /\ cfg.front_guard_bytes = 16

(* C20 *)

\* C20: after every successful build on a fresh Config the numeric field
\* of each feature whose bit is set lies within the bounds of its entry:
\* the front guard is a multiple of the alignment between the alignment and
\* 16384, the rear guard, the expansion and the free-track count are in
\* 1..16384, the backtrace frames in 1..256, each fill count is at least
\* 1, and free_track_backtrace_num_frames is in 0..256.
C20_FieldsWithinBounds ==
  (Returned /\ result /\ first = NoCall)
    => /\ "FRONT_GUARD" \in cfg.options
            => /\ cfg.front_guard_bytes % MINIMUM_ALIGNMENT_BYTES = 0
               /\ cfg.front_guard_bytes >= MINIMUM_ALIGNMENT_BYTES
               /\ cfg.front_guard_bytes <= 16384
       /\ "REAR_GUARD" \in cfg.options
            => cfg.rear_guard_bytes \in 1..16384
       /\ "BACKTRACE" \in cfg.options
            => cfg.backtrace_frames \in 1..256
       /\ "EXPAND_ALLOC" \in cfg.options
            => cfg.expand_alloc_bytes \in 1..16384
       /\ "FREE_TRACK" \in cfg.options
            => cfg.free_track_allocations \in 1..16384
       /\ "FILL_ON_ALLOC" \in cfg.options
            => cfg.fill_on_alloc_bytes >= 1 /\ cfg.fill_on_alloc_bytes <= SIZE_MAX
       /\ "FILL_ON_FREE" \in cfg.options
            => cfg.fill_on_free_bytes >= 1 /\ cfg.fill_on_free_bytes <= SIZE_MAX
       /\ cfg.free_track_backtrace_num_frames \in 0..256

\* "free_track guard=16383": the front guard is rounded up to the maximum.
C20_Witness ==
  /\ Returned
  /\ result
  /\ TwoTokens(N_free_track, NumToken(N_guard, 16383))
  /\ cfg.front_guard_bytes = 16384
  /\ cfg.rear_guard_bytes = 16383
  /\ cfg.free_track_allocations = 100
  /\ cfg.fill_on_free_bytes = SIZE_MAX
  /\ cfg.free_track_backtrace_num_frames = 16

(* C21 *)

\* Where the name of the last call of Get ends, and what follows the white
\* space after it.
NameEnd == get.name_start + Len(get.property)

AfterName ==
  CHOOSE q \in NameEnd..(Len(property_value) + 1) :
    /\ \A p \in NameEnd..(q - 1) : isspace(CharAt(property_value, p))
    /\ ~isspace(CharAt(property_value, q))

\* The text from the name of the last call on, with the white space
\* between the name and what follows it taken out.
Squeezed ==
  get.property \o SubSeq(property_value, AfterName, Len(property_value))

\* C21: when "=" follows the name of a call of Get after any white space,
\* the call returns, writes and logs what a call on the same text without
\* that white space does (the same name, number and value_set = true); when
\* another character follows, the token has value_set = false, the cursor
\* stands on that character and the next call starts its name there.
C21_SpaceBeforeEquals ==
  (get.name_start # 0)
    => /\ get.property = SubSeq(property_value, get.name_start, NameEnd - 1)
       /\ get.property # << >>
            => ~isspace(get.property[1]) /\ get.property[1] # "="
       /\ CharAt(property_value, AfterName) = "="
            => /\ get.value_set
               /\ get.num_start = AfterName + 1
               /\ \E r \in {PropertyParserGet(Squeezed, 1)} :
                    /\ r.ret = get.ret
                    /\ r.property = get.property
                    /\ r.value_set = get.value_set
                    /\ r.wrote_value = get.wrote_value
                    /\ r.value = get.value
                    /\ r.err = get.err
                    /\ r.num_start = Len(get.property) + 2
       /\ CharAt(property_value, AfterName) # "="
            => /\ get.ret
               /\ ~get.value_set
               /\ ~get.wrote_value
               /\ get.cur = AfterName
               /\ \E r \in {PropertyParserGet(property_value, get.cur)} :
                    IF CharAt(property_value, AfterName) = NUL
                    THEN r.done /\ ~r.ret
                    ELSE r.name_start = AfterName

\* Get was called on "guard \t=64".
C21_Witness ==
  /\ pc = "parser"
  /\ property_value = N_guard \o << " ", "\t", "=", "6", "4" >>
  /\ get.ret
  /\ get.property = N_guard
  /\ get.value_set
  /\ get.value = 64
  /\ AfterName = NameEnd + 2
  /\ tokens = << [name |-> N_guard, value |-> 64, value_set |-> TRUE] >>

(* C22 *)

\* C22: the build returns.  Every call of Get that returns a token leaves
\* the cursor at least one character further and never beyond the
\* terminator, so that there are never more tokens than characters, and
\* the loop is left with Done set, after a failed Get or with valid false.
C22_BuildTerminates ==
  /\ <>Returned
  /\ [][(pc = "loop" /\ pc' = "scan")
         => /\ cur' > cur
            /\ cur' <= Len(property_value) + 1
            /\ Len(tokens') = Len(tokens) + 1]_vars
  /\ [](/\ cur <= Len(property_value) + 1
        /\ Len(tokens) <= Len(property_value)
        /\ Len(tokens) < cur
        /\ pc \in {"post", "returned"} /\ property_value # << >>
             => done \/ ParserFailed \/ ~valid)

\* "guard=10 =10" has returned: the second token has no name and took the
\* cursor over "=10"; the call after it reported Done.
C22_Witness ==
  /\ Returned
  /\ property_value = NumToken(N_guard, 10) \o << " ", "=", "1", "0" >>
  /\ Len(tokens) = 2
  /\ tokens[2] = [name |-> << >>, value |-> 10, value_set |-> TRUE]
  /\ cur = Len(property_value) + 1
  /\ done

====
